---- MODULE Spec2Model ----
(***************************************************************************)
(* A model of Code-Doctor (src/llm2.py): a single-threaded pipeline that   *)
(* fetches the open issues of a GitHub repository, matches each issue to a *)
(* source file, asks a completion service for a fix and writes a report.   *)
(*                                                                         *)
(* Python strings are TLA+ strings; TLC evaluates Len, SubSeq and \o on    *)
(* them, so the string functions of the program (strip, split, replace,    *)
(* the `in` operator, endswith, lower, os.path.basename) are modelled      *)
(* character by character.  Python's None is the model value None.         *)
(***************************************************************************)
EXTENDS Integers, Sequences, FiniteSets, TLC

VARIABLES
    pc,               \* position of the script / of the harness
    github_url,       \* st.text_input value                   (line 29)
    branch,           \* st.radio value                        (line 30)
    owner, repo,      \* extract_repo_details result           (line 141)
    issues,           \* fetch_github_issues_cached result     (line 145)
    repo_files,       \* fetch_repo_files_cached result        (line 148)
    filtered_issues,  \* the filtered issue list               (line 154)
    idx,              \* 1-based position in filtered_issues   (line 156)
    issue_body,       \* argument of extract_file_path         (line 61)
    file_path,        \* extract_file_path result              (line 157)
    buggy_code,       \* fetch_buggy_code result               (line 164)
    completion,       \* response.choices[0].message.content   (line 118)
    ai_response,      \* stripped completion text              (line 118)
    fix_details,      \* fix_code_with_ai result               (line 166)
    calls,            \* completion requests of the current fix_code_with_ai
    ui,               \* what streamlit has displayed, in order
    pdf,              \* the FPDF object: its pages and cells  (line 150)
    pdf_file,         \* the document at /mnt/data/Fix_Report.pdf
    requests,         \* external requests issued, in order
    issues_cache,     \* lru_cache of fetch_github_issues_cached (line 51)
    files_cache,      \* lru_cache of fetch_repo_files_cached    (line 56)
    cache_info,       \* the hits and misses each lru_cache counts
    last_call,        \* the last call of a cached fetcher and what it returned
    last_use          \* per cached fetcher, the keys it was called with, the
                      \* least recently used first

vars == <<pc, github_url, branch, owner, repo, issues, repo_files,
          filtered_issues, idx, issue_body, file_path, buggy_code,
          completion, ai_response, fix_details, calls, ui, pdf, pdf_file, requests,
          issues_cache, files_cache, cache_info, last_call, last_use>>

None == "<None>"

\* None where the value is otherwise a dict or an object
NoneObject == [none |-> TRUE]

(***************************************************************************)
(* Python string functions.                                                *)
(***************************************************************************)
Whitespace == {" ", "\n", "\t", "\r"}

Char(s, i) == SubSeq(s, i, i)

RECURSIVE lstrip(_)
lstrip(s) ==
    IF Len(s) > 0 /\ Char(s, 1) \in Whitespace THEN lstrip(SubSeq(s, 2, Len(s))) ELSE s

RECURSIVE rstrip(_)
rstrip(s) ==
    IF Len(s) > 0 /\ Char(s, Len(s)) \in Whitespace THEN rstrip(SubSeq(s, 1, Len(s) - 1)) ELSE s

\* str.strip()
strip(s) == lstrip(rstrip(s))

\* str.rstrip(chars) for a one-character chars
RECURSIVE rstrip_char(_, _)
rstrip_char(s, c) ==
    IF Len(s) > 0 /\ Char(s, Len(s)) = c THEN rstrip_char(SubSeq(s, 1, Len(s) - 1), c) ELSE s

\* s[i:].startswith(t), i 1-based
MatchAt(s, i, t) == i + Len(t) - 1 <= Len(s) /\ SubSeq(s, i, i + Len(t) - 1) = t

\* t in s
Contains(s, t) == \E i \in 1..(Len(s) + 1) : MatchAt(s, i, t)

\* s.find(t), 1-based, 0 when absent; t is non-empty
Find(s, t) ==
    IF Contains(s, t) THEN CHOOSE i \in 1..Len(s) : MatchAt(s, i, t) /\ \A j \in 1..(i - 1) : ~MatchAt(s, j, t)
    ELSE 0

\* s.endswith(t)
endswith(s, t) == Len(t) <= Len(s) /\ SubSeq(s, Len(s) - Len(t) + 1, Len(s)) = t

\* s.split(sep), sep non-empty: the pieces between the non-overlapping
\* occurrences of sep, scanned left to right
RECURSIVE split(_, _)
split(s, sep) ==
    LET i == Find(s, sep) IN
    IF i = 0 THEN <<s>>
    ELSE <<SubSeq(s, 1, i - 1)>> \o split(SubSeq(s, i + Len(sep), Len(s)), sep)

\* s.replace(old, ""), old non-empty
RECURSIVE remove(_, _)
remove(s, old) ==
    LET i == Find(s, old) IN
    IF i = 0 THEN s
    ELSE SubSeq(s, 1, i - 1) \o remove(SubSeq(s, i + Len(old), Len(s)), old)

UpperToLower ==
    [c \in {"A", "B", "C", "D", "E", "F", "G", "H", "I", "J", "K", "L", "M", "N", "O",
            "P", "Q", "R", "S", "T", "U", "V", "W", "X", "Y", "Z"} |->
        CASE c = "A" -> "a" [] c = "B" -> "b" [] c = "C" -> "c" [] c = "D" -> "d"
          [] c = "E" -> "e" [] c = "F" -> "f" [] c = "G" -> "g" [] c = "H" -> "h"
          [] c = "I" -> "i" [] c = "J" -> "j" [] c = "K" -> "k" [] c = "L" -> "l"
          [] c = "M" -> "m" [] c = "N" -> "n" [] c = "O" -> "o" [] c = "P" -> "p"
          [] c = "Q" -> "q" [] c = "R" -> "r" [] c = "S" -> "s" [] c = "T" -> "t"
          [] c = "U" -> "u" [] c = "V" -> "v" [] c = "W" -> "w" [] c = "X" -> "x"
          [] c = "Y" -> "y" [] c = "Z" -> "z"]

\* str.lower() on ASCII text
RECURSIVE lower(_)
lower(s) ==
    IF s = "" THEN ""
    ELSE LET c == Char(s, 1) IN
         (IF c \in DOMAIN UpperToLower THEN UpperToLower[c] ELSE c) \o lower(SubSeq(s, 2, Len(s)))

\* os.path.basename (posixpath): what follows the last "/"
RECURSIVE basename(_)
basename(p) ==
    LET i == Find(p, "/") IN
    IF i = 0 THEN p ELSE basename(SubSeq(p, i + 1, Len(p)))

(***************************************************************************)
(* Bounded input sets: the strings made of at most n pieces.               *)
(***************************************************************************)
RECURSIVE Concats(_, _)
Concats(pieces, n) ==
    IF n = 0 THEN {""}
    ELSE LET shorter == Concats(pieces, n - 1) IN
         shorter \cup {s \o p : s \in shorter, p \in pieces}

Max(S) == CHOOSE x \in S : \A y \in S : y <= x

Last(q) == q[Len(q)]

(***************************************************************************)
(* Repository Locator.                                                     *)
(***************************************************************************)
\* the Locator with the trailing slash left in place
extract_repo_details_keep_slash(url) ==
    LET parts == split(url, "/") IN
    IF Len(parts) >= 2 THEN <<parts[Len(parts) - 1], parts[Len(parts)]>> ELSE <<None, None>>

extract_repo_details(url) ==
    LET parts == split(rstrip_char(url, "/"), "/") IN
    IF Len(parts) >= 2 THEN <<parts[Len(parts) - 1], parts[Len(parts)]>> ELSE <<None, None>>

(***************************************************************************)
(* What every specification starts from: nothing fetched, nothing shown.   *)
(***************************************************************************)
NothingYet ==
    /\ owner = None /\ repo = None
    /\ issues = <<>> /\ filtered_issues = <<>>
    /\ idx = 0 /\ file_path = None /\ buggy_code = None
    /\ ai_response = None /\ fix_details = NoneObject /\ calls = 0
    /\ ui = <<>> /\ pdf = NoneObject /\ pdf_file = NoneObject /\ requests = <<>>
    /\ issues_cache = <<>> /\ files_cache = <<>>
    /\ last_call = [fn |-> None, key |-> None, hit |-> FALSE, result |-> None]
    /\ cache_info = [issues |-> [hits |-> 0, misses |-> 0], files |-> [hits |-> 0, misses |-> 0]]
    /\ last_use = [issues |-> <<>>, files |-> <<>>]

(***************************************************************************)
(* SpecLocator: extract_repo_details applied to every URL-like string of   *)
(* at most MaxUrlParts pieces, and to the repository URL of the example. *)
(***************************************************************************)
MaxUrlParts == 4

UrlPieces == {"a", "b", "/"}

ExampleUrl == "https://github.com/acme/widgets/"

Urls == Concats(UrlPieces, MaxUrlParts) \cup {ExampleUrl, "https://github.com/acme/widgets"}

LocatorInit ==
    /\ pc = "locate"
    /\ github_url \in Urls
    /\ branch = "main" /\ issue_body = None
    /\ repo_files = <<>> /\ completion = None
    /\ NothingYet

Locate ==
    /\ pc = "locate"
    /\ owner' = extract_repo_details(github_url)[1]
    /\ repo' = extract_repo_details(github_url)[2]
    /\ pc' = "located"
    /\ UNCHANGED <<github_url, branch, issues, repo_files, filtered_issues, idx,
                   issue_body, file_path, buggy_code, completion, ai_response, fix_details,
                   calls, ui, pdf, pdf_file, requests, issues_cache, files_cache,
                   cache_info, last_call, last_use>>

SpecLocator == LocatorInit /\ [][Locate]_vars

\* the url without its trailing slashes: its longest prefix not ending in "/"
WithoutTrailingSlashes(url) ==
    SubSeq(url, 1, Max({k \in 0..Len(url) : k = 0 \/ Char(url, k) # "/"}))

SlashPositions(s) == {i \in 1..Len(s) : Char(s, i) = "/"}

NonEmptySegments(s) == SelectSeq(split(s, "/"), LAMBDA seg : seg # "")

\* C10 as stated: with at least two slash-separated segments after the
\* trailing slash is stripped, the Locator returns the last two NON-EMPTY
\* segments as (owner, repo); with fewer it returns (None, None).
C10_LastTwoNonEmptySegments ==
    pc = "located" =>
        LET s == WithoutTrailingSlashes(github_url)
            ne == NonEmptySegments(s)
        IN  IF SlashPositions(s) = {} THEN owner = None /\ repo = None
            ELSE Len(ne) >= 2 => owner = ne[Len(ne) - 1] /\ repo = ne[Len(ne)]

\* C10 amended: with all trailing slashes stripped, a url holding no slash
\* gives (None, None); otherwise repo is the non-empty text after the last
\* slash and owner the text between the slash before it (or the start) and
\* the last slash, which may be empty.
C10_LastTwoSegments ==
    pc = "located" =>
        LET s == WithoutTrailingSlashes(github_url)
            sl == SlashPositions(s)
        IN  IF sl = {} THEN owner = None /\ repo = None
            ELSE LET last == Max(sl)
                     prev == Max({0} \cup {i \in sl : i < last})
                 IN  /\ owner = SubSeq(s, prev + 1, last - 1)
                     /\ repo = SubSeq(s, last + 1, Len(s))
                     /\ repo # ""

C10_Witness ==
    /\ pc = "located"
    /\ github_url = ExampleUrl
    /\ owner = "acme" /\ repo = "widgets"

(***************************************************************************)
(* File Matcher.                                                           *)
(***************************************************************************)
valid_extensions == <<".py", ".cpp", ".js", ".c", ".java">>

\* any(repo_file.endswith(ext) for ext in valid_extensions)       (line 71)
HasValidExtension(repo_file) ==
    \E e \in 1..Len(valid_extensions) : endswith(repo_file, valid_extensions[e])

\* line.strip() in repo_file or line.strip() == basename(repo_file) (line 72)
LineMatches(line, repo_file) ==
    Contains(repo_file, strip(line)) \/ strip(line) = basename(repo_file)

\* the inner loop from file j on: the first file the line matches, or None
RECURSIVE ScanFiles(_, _, _)
ScanFiles(line, files, j) ==
    IF j > Len(files) THEN None
    ELSE IF HasValidExtension(files[j]) /\ LineMatches(line, files[j]) THEN files[j]
    ELSE ScanFiles(line, files, j + 1)

\* the outer loop from line i on
RECURSIVE ScanLines(_, _, _)
ScanLines(lines, files, i) ==
    IF i > Len(lines) THEN None
    ELSE LET hit == ScanFiles(lines[i], files, 1) IN
         IF hit # None THEN hit ELSE ScanLines(lines, files, i + 1)

\* the loops the other way round: files outside, lines inside
RECURSIVE ScanFilesFirst(_, _, _)
ScanFilesFirst(lines, files, j) ==
    IF j > Len(files) THEN None
    ELSE IF /\ HasValidExtension(files[j])
            /\ \E i \in 1..Len(lines) : LineMatches(lines[i], files[j]) THEN files[j]
    ELSE ScanFilesFirst(lines, files, j + 1)

extract_file_path_files_first(body, files) ==
    IF body \in {None, ""} \/ files = <<>> THEN None
    ELSE ScanFilesFirst(split(body, "\n"), files, 1)

extract_file_path(body, files) ==
    IF body \in {None, ""} \/ files = <<>> THEN None
    ELSE ScanLines(split(body, "\n"), files, 1)

(***************************************************************************)
(* SpecMatch: extract_file_path applied to every body of at most           *)
(* MaxBodyParts pieces and every list of at most MaxFiles distinct files.  *)
(***************************************************************************)
MaxBodyParts == 3

MaxFiles == 2

BodyPieces == {"a", "b.py", "d/", " ", "\n"}

FilePool == {"b.py", "d/a.py", "d/b.py", "a.md", "d/a"}

SentenceBody == "See bugs in utils/parser.py for the crash"

SentenceFiles == <<"utils/parser.py", "utils/helper.py">>

Bodies == Concats(BodyPieces, MaxBodyParts) \cup {SentenceBody}

\* the lists of at most n distinct elements of S
RECURSIVE ListsOf(_, _)
ListsOf(S, n) ==
    IF n = 0 THEN {<<>>}
    ELSE LET shorter == ListsOf(S, n - 1) IN
         shorter \cup {Append(q, x) : q \in shorter, x \in S}

Distinct(q) == \A i, j \in 1..Len(q) : i # j => q[i] # q[j]

FileLists == {q \in ListsOf(FilePool, MaxFiles) : Distinct(q)} \cup {SentenceFiles}

MatchInit ==
    /\ pc = "match"
    /\ issue_body \in Bodies
    /\ repo_files \in FileLists
    /\ github_url = "" /\ branch = "main" /\ completion = None
    /\ NothingYet

Match ==
    /\ pc = "match"
    /\ file_path' = extract_file_path(issue_body, repo_files)
    /\ pc' = "matched"
    /\ UNCHANGED <<github_url, branch, owner, repo, issues, repo_files,
                   filtered_issues, idx, issue_body, buggy_code, completion,
                   ai_response, fix_details, calls, ui, pdf, pdf_file, requests,
                   issues_cache, files_cache, cache_info, last_call, last_use>>

SpecMatch == MatchInit /\ [][Match]_vars

BodyLines == split(issue_body, "\n")

\* the (line, file) pairs before <<i, j>> in the nested scan order
Earlier(i, j) ==
    {p \in (1..Len(BodyLines)) \X (1..Len(repo_files)) :
        p[1] < i \/ (p[1] = i /\ p[2] < j)}

\* the trimmed line equals the basename or is a substring of the path
Satisfies(p) ==
    LET line == strip(BodyLines[p[1]])
        f == repo_files[p[2]]
    IN  line = basename(f) \/ \E k \in 1..(Len(f) + 1) : MatchAt(f, k, line)

AllPairs == (1..Len(BodyLines)) \X (1..Len(repo_files))

\* C2 as stated: for every body and file list the result is the file of the
\* first (line, file) pair, lines outside and files inside, whose trimmed
\* line equals the file's basename or is a substring of its path; none iff
\* no pair does; a returned path is in the list.
C2_FirstSatisfyingPair ==
    pc = "matched" =>
        LET hits == {p \in AllPairs : Satisfies(p)} IN
        /\ (file_path = None) <=> (hits = {})
        /\ \A p \in hits : (\A e \in Earlier(p[1], p[2]) : e \notin hits)
                              => file_path = repo_files[p[2]]
        /\ file_path # None => \E j \in 1..Len(repo_files) : file_path = repo_files[j]

\* C2 amended: the same for every non-empty body, a pair counting only when
\* its file also ends with a recognized extension; an empty body gives none.
C2_FirstSatisfyingSourcePair ==
    pc = "matched" =>
        LET hits == {p \in AllPairs :
                        /\ Satisfies(p)
                        /\ \E ext \in {".py", ".cpp", ".js", ".c", ".java"} :
                              LET f == repo_files[p[2]] IN
                              Len(f) >= Len(ext) /\ SubSeq(f, Len(f) - Len(ext) + 1, Len(f)) = ext}
        IN
        IF issue_body = "" THEN file_path = None
        ELSE /\ (file_path = None) <=> (hits = {})
             /\ \A p \in hits : (\A e \in Earlier(p[1], p[2]) : e \notin hits)
                                   => file_path = repo_files[p[2]]
             /\ file_path # None => \E j \in 1..Len(repo_files) : file_path = repo_files[j]

\* the second line matches the first file, the first line the second file:
\* the line order decides
C2_Witness ==
    /\ pc = "matched"
    /\ issue_body = "a\nb.py"
    /\ repo_files = <<"b.py", "d/a.py">>
    /\ file_path = "d/a.py"

\* the path stands in the line as a word of its own: text delimited by
\* blanks or by the ends of the line, with other text around it
MentionedIn(path, line) ==
    /\ strip(line) # path
    /\ \E k \in 1..Len(line) :
          /\ MatchAt(line, k, path)
          /\ k = 1 \/ Char(line, k - 1) = " "
          /\ k + Len(path) > Len(line) \/ Char(line, k + Len(path)) = " "

\* C3: when a line of the body contains the path of a listed file inside
\* longer text, that file is returned; so for the body "See bugs in
\* utils/parser.py for the crash".
C3_PathInsideSentence ==
    pc = "matched" =>
        LET mentioned == {j \in 1..Len(repo_files) :
                            \E i \in 1..Len(BodyLines) : MentionedIn(repo_files[j], BodyLines[i])}
        IN  /\ mentioned # {} => \E j \in mentioned : file_path = repo_files[j]
            /\ (issue_body = SentenceBody /\ repo_files = SentenceFiles)
                  => file_path = "utils/parser.py"

(***************************************************************************)
(* Fix Generator: parsing the completion text.                             *)
(***************************************************************************)
RootCauseMarker == "**Root Cause:**"

FixedCodeMarker == "**Fixed Code:**"

ExplanationMarker == "**Explanation:**"

EmptySections == [f \in {"Root Cause", "Fixed Code", "Explanation"} |-> ""]

\* a field is set by the first block that names it and never again
AssignFirstOnly(acc, section) ==
    IF Contains(section, RootCauseMarker) THEN
        IF acc["Root Cause"] # "" THEN acc
        ELSE [acc EXCEPT !["Root Cause"] = strip(remove(section, RootCauseMarker))]
    ELSE IF Contains(section, FixedCodeMarker) THEN
        IF acc["Fixed Code"] # "" THEN acc
        ELSE [acc EXCEPT !["Fixed Code"] = strip(remove(section, FixedCodeMarker))]
    ELSE IF Contains(section, ExplanationMarker) THEN
        IF acc["Explanation"] # "" THEN acc
        ELSE [acc EXCEPT !["Explanation"] = strip(remove(section, ExplanationMarker))]
    ELSE acc

\* the body of the loop over the sections                   (lines 122-127)
Assign(acc, section) ==
    IF Contains(section, RootCauseMarker) THEN
        [acc EXCEPT !["Root Cause"] = strip(remove(section, RootCauseMarker))]
    ELSE IF Contains(section, FixedCodeMarker) THEN
        [acc EXCEPT !["Fixed Code"] = strip(remove(section, FixedCodeMarker))]
    ELSE IF Contains(section, ExplanationMarker) THEN
        [acc EXCEPT !["Explanation"] = strip(remove(section, ExplanationMarker))]
    ELSE acc

\* the loop over ai_response.split("\n\n") from section i on
RECURSIVE AssignFrom(_, _, _)
AssignFrom(sections, i, acc) ==
    IF i > Len(sections) THEN acc
    ELSE AssignFrom(sections, i + 1, Assign(acc, sections[i]))

\* formatted_sections for a stripped completion text        (lines 119-127)
ParseSections(text) == AssignFrom(split(text, "\n\n"), 1, EmptySections)

(***************************************************************************)
(* SpecParse: the parse applied to every completion text made of at most   *)
(* MaxBlocks blocks joined by blank lines.                                 *)
(***************************************************************************)
MaxBlocks == 4

BlockPool ==
    { "**Root Cause:** r",
      "**Fixed Code:** f",
      "**Explanation:** e",
      " **Root Cause:** q\n",
      "note",
      "**Root Cause:** r **Fixed Code:** g",
      "Summary: **Explanation:** e2" }

\* the texts of 1..n blocks joined by "\n\n"
RECURSIVE Joined(_, _)
Joined(blocks, n) ==
    IF n = 1 THEN blocks
    ELSE LET shorter == Joined(blocks, n - 1) IN
         shorter \cup {s \o "\n\n" \o b : s \in shorter, b \in blocks}

Completions == Joined(BlockPool, MaxBlocks)

ParseInit ==
    /\ pc = "parse"
    /\ completion \in Completions
    /\ github_url = "" /\ branch = "main" /\ issue_body = None
    /\ repo_files = <<>>
    /\ NothingYet

\* lines 118-133 for one response: strip, parse, and return unless the
\* fixed code is empty
Parse ==
    /\ pc = "parse"
    /\ ai_response' = strip(completion)
    /\ fix_details' = ParseSections(strip(completion))
    /\ pc' = IF ParseSections(strip(completion))["Fixed Code"] = "" THEN "reattempt" ELSE "returned"
    /\ UNCHANGED <<github_url, branch, owner, repo, issues, repo_files,
                   filtered_issues, idx, issue_body, file_path, buggy_code,
                   completion, calls, ui, pdf, pdf_file, requests,
                   issues_cache, files_cache, cache_info, last_call, last_use>>

SpecParse == ParseInit /\ [][Parse]_vars

MarkerOf == [f \in {"Root Cause", "Fixed Code", "Explanation"} |->
                CASE f = "Root Cause" -> "**Root Cause:**"
                  [] f = "Fixed Code" -> "**Fixed Code:**"
                  [] f = "Explanation" -> "**Explanation:**"]

HasMarker(text, f) == \E k \in 1..Len(text) : MatchAt(text, k, MarkerOf[f])

Blocks == split(ai_response, "\n\n")

\* what follows the first occurrence of the field's marker in the block
TextAfterMarker(block, f) ==
    LET k == Find(block, MarkerOf[f]) IN SubSeq(block, k + Len(MarkerOf[f]), Len(block))

\* a block of the shape the prompt asks for: free text without a marker, or
\* one marker, preceded by blanks only, and the text after it
PlainBlock(block) ==
    \/ \A f \in DOMAIN MarkerOf : ~HasMarker(block, f)
    \/ \E f \in DOMAIN MarkerOf :
          /\ HasMarker(block, f)
          /\ strip(SubSeq(block, 1, Find(block, MarkerOf[f]) - 1)) = ""
          /\ \A g \in DOMAIN MarkerOf : ~HasMarker(TextAfterMarker(block, f), g)

\* C4 as stated: for a response of blocks separated by blank lines that
\* holds the three markers, each field is the trimmed text that follows its
\* marker in the FIRST block containing that marker.
C4_FirstBlockWins ==
    ( /\ pc = "returned"
      /\ \A f \in DOMAIN MarkerOf : HasMarker(ai_response, f)
      /\ \A i \in 1..Len(Blocks) : PlainBlock(Blocks[i]) ) =>
        \A f \in DOMAIN MarkerOf :
            LET first == CHOOSE i \in 1..Len(Blocks) :
                            /\ HasMarker(Blocks[i], f)
                            /\ \A j \in 1..(i - 1) : ~HasMarker(Blocks[j], f)
            IN  fix_details[f] = strip(TextAfterMarker(Blocks[first], f))

\* the field a block is read for: the first of Root Cause, Fixed Code,
\* Explanation whose marker it contains
ReadFor(block) ==
    IF HasMarker(block, "Root Cause") THEN "Root Cause"
    ELSE IF HasMarker(block, "Fixed Code") THEN "Fixed Code"
    ELSE IF HasMarker(block, "Explanation") THEN "Explanation"
    ELSE None

\* C4 amended: each field comes from the LAST block read for it, a block
\* being read for the first of Root Cause, Fixed Code, Explanation whose
\* marker it contains: the field is that block without the marker, trimmed,
\* which is the trimmed text following the marker when only blanks precede
\* the marker and it occurs once; a field no block is read for is empty.
C4_LastBlockWins ==
    pc \in {"returned", "reattempt"} =>
        \A f \in DOMAIN MarkerOf :
            LET mine == {i \in 1..Len(Blocks) : ReadFor(Blocks[i]) = f} IN
            IF mine = {} THEN fix_details[f] = ""
            ELSE LET b == Blocks[Max(mine)]
                     k == Find(b, MarkerOf[f])
                     before == SubSeq(b, 1, k - 1)
                     after == TextAfterMarker(b, f)
                 IN  /\ ~HasMarker(after, f) => fix_details[f] = strip(before \o after)
                     /\ (strip(before) = "" /\ ~HasMarker(after, f))
                           => fix_details[f] = strip(after)

\* two blocks carry the Root Cause marker and the later one is returned
C4_Witness ==
    /\ pc = "returned"
    /\ ai_response = "**Root Cause:** r\n\n**Fixed Code:** f\n\n**Explanation:** e\n\n **Root Cause:** q"
    /\ fix_details = [EmptySections EXCEPT !["Root Cause"] = "q", !["Fixed Code"] = "f",
                                           !["Explanation"] = "e"]

(***************************************************************************)
(* Issue Fetcher and Tree Fetcher.  A response is [status, json]; the json *)
(* of the issues endpoint is a list of issues [title, body], that of the   *)
(* tree endpoint an object whose "tree" lists entries [path, type].        *)
(***************************************************************************)
\* response.json() if response.status_code == 200 else []       (line 42)
fetch_github_issues(response) ==
    IF response.status = 200 THEN response.json ELSE <<>>

\* the paths of the blob entries of the tree, in order          (line 49)
fetch_repo_files(response) ==
    IF response.status = 200
    THEN LET blobs == SelectSeq(response.json.tree, LAMBDA file : file.type = "blob")
         IN  [i \in 1..Len(blobs) |-> blobs[i].path]
    ELSE <<>>

(***************************************************************************)
(* functools.lru_cache(maxsize=10): a cache is the sequence of its entries *)
(* [key, value], the least recently used first.                            *)
(***************************************************************************)
maxsize == 10

CacheKeys(cache) == {cache[i].key : i \in 1..Len(cache)}

CacheValue(cache, key) == cache[CHOOSE i \in 1..Len(cache) : cache[i].key = key].value

\* a hit that leaves the entry where it is (first in, first out)
lru_hit_in_place(cache, key) == cache

\* a hit: the entry becomes the most recently used
lru_hit(cache, key) ==
    SelectSeq(cache, LAMBDA e : e.key # key) \o <<[key |-> key, value |-> CacheValue(cache, key)]>>

\* a miss: the result is stored, in place of the oldest entry of a full cache
lru_miss(cache, key, value) ==
    IF Len(cache) >= maxsize THEN Append(Tail(cache), [key |-> key, value |-> value])
    ELSE Append(cache, [key |-> key, value |-> value])

\* the key becomes the most recently used of the keys called with
Touch(used, key) == SelectSeq(used, LAMBDA k : k # key) \o <<key>>

(***************************************************************************)
(* SpecCache: the two cached fetchers called as the script calls them, run *)
(* after run: the issues of (owner, repo), then, when there are any, the   *)
(* files of (owner, repo, branch).  A run is for a repository never asked  *)
(* for (at most MaxRepos of them), for the one asked for longest ago, for  *)
(* the least recently used one of the issue cache, or for the repository   *)
(* of the run before on the other branch.  At most MaxRequests requests    *)
(* are sent, MaxFailures of them fail, and each cache serves MaxHits hits. *)
(***************************************************************************)
MaxRepos == 11

MaxRequests == 23

MaxFailures == 1

MaxHits == 1

RepoName(i) == "repo" \o ToString(i)

\* the issue list and the tree the server holds for a repository
IssuesOf(name) == <<[title |-> "issue of " \o name, body |-> "error"]>>

TreeOf(name, ref) ==
    [tree |-> <<[path |-> name \o "/" \o ref \o ".py", type |-> "blob"],
                [path |-> name, type |-> "tree"]>>]

Failures == Cardinality({i \in 1..Len(requests) : requests[i].status # 200})

Statuses == IF Failures < MaxFailures THEN {200, 404} ELSE {200}

OtherBranch(b) == IF b = "main" THEN "master" ELSE "main"

\* the (repo, branch) pairs the next run may be for
RunsToStart ==
    (IF Len(last_use.issues) < MaxRepos
     THEN {<<RepoName(Len(last_use.issues) + 1), "main">>} ELSE {})
    \cup (IF last_use.issues = <<>> THEN {}
          ELSE {<<last_use.issues[1][2], "main">>, <<repo, OtherBranch(branch)>>})
    \cup (IF issues_cache = <<>> THEN {} ELSE {<<issues_cache[1].key[2], "main">>})

CacheInit ==
    /\ pc = "issues"
    /\ github_url = "" /\ branch = "main" /\ issue_body = None
    /\ repo_files = <<>> /\ completion = None
    /\ NothingYet

\* fetch_github_issues_cached(owner, repo)         (lines 51-54, 145-147)
CallIssuesCached ==
    /\ pc = "issues"
    /\ \E run \in RunsToStart :
        LET key == <<"octo", run[1]>> IN
          /\ owner' = "octo" /\ repo' = run[1] /\ branch' = run[2]
          /\ last_use' = [last_use EXCEPT !.issues = Touch(@, key)]
          /\ IF key \in CacheKeys(issues_cache)
             THEN /\ cache_info.issues.hits < MaxHits
                  /\ cache_info' = [cache_info EXCEPT !.issues.hits = @ + 1]
                  /\ issues_cache' = lru_hit(issues_cache, key)
                  /\ last_call' = [fn |-> "issues", key |-> key, hit |-> TRUE,
                                   result |-> CacheValue(issues_cache, key)]
                  /\ issues' = CacheValue(issues_cache, key)
                  /\ pc' = IF CacheValue(issues_cache, key) # <<>> THEN "files" ELSE "issues"
                  /\ UNCHANGED requests
             ELSE /\ Len(requests) < MaxRequests
                  /\ cache_info' = [cache_info EXCEPT !.issues.misses = @ + 1]
                  /\ \E status \in Statuses :
                        LET response == [status |-> status,
                                         json |-> IF status = 200 THEN IssuesOf(run[1])
                                                  ELSE [message |-> "Not Found"]]
                        IN  /\ requests' = Append(requests, [kind |-> "issues", key |-> key,
                                                              status |-> status])
                            /\ issues_cache' = lru_miss(issues_cache, key, fetch_github_issues(response))
                            /\ last_call' = [fn |-> "issues", key |-> key, hit |-> FALSE,
                                             result |-> fetch_github_issues(response)]
                            /\ issues' = fetch_github_issues(response)
                            /\ pc' = IF fetch_github_issues(response) # <<>> THEN "files" ELSE "issues"
    /\ UNCHANGED <<github_url, repo_files, filtered_issues, idx, issue_body,
                   file_path, buggy_code, completion, ai_response, fix_details,
                   calls, ui, pdf, pdf_file, files_cache>>

\* fetch_repo_files_cached(owner, repo, branch)      (lines 56-59, 148)
CallFilesCached ==
    /\ pc = "files"
    /\ LET key == <<owner, repo, branch>> IN
          /\ last_use' = [last_use EXCEPT !.files = Touch(@, key)]
          /\ IF key \in CacheKeys(files_cache)
             THEN /\ cache_info.files.hits < MaxHits
                  /\ cache_info' = [cache_info EXCEPT !.files.hits = @ + 1]
                  /\ files_cache' = lru_hit(files_cache, key)
                  /\ last_call' = [fn |-> "files", key |-> key, hit |-> TRUE,
                                   result |-> CacheValue(files_cache, key)]
                  /\ repo_files' = CacheValue(files_cache, key)
                  /\ UNCHANGED requests
             ELSE /\ Len(requests) < MaxRequests
                  /\ cache_info' = [cache_info EXCEPT !.files.misses = @ + 1]
                  /\ \E status \in Statuses :
                        LET response == [status |-> status,
                                         json |-> IF status = 200 THEN TreeOf(repo, branch)
                                                  ELSE [message |-> "Not Found"]]
                        IN  /\ requests' = Append(requests, [kind |-> "tree", key |-> key,
                                                              status |-> status])
                            /\ files_cache' = lru_miss(files_cache, key, fetch_repo_files(response))
                            /\ last_call' = [fn |-> "files", key |-> key, hit |-> FALSE,
                                             result |-> fetch_repo_files(response)]
                            /\ repo_files' = fetch_repo_files(response)
    /\ pc' = "issues"
    /\ UNCHANGED <<github_url, branch, owner, repo, issues, filtered_issues, idx,
                   issue_body, file_path, buggy_code, completion, ai_response,
                   fix_details, calls, ui, pdf, pdf_file, issues_cache>>

SpecCache == CacheInit /\ [][CallIssuesCached \/ CallFilesCached]_vars

\* the key of `keys` called with longest ago
LeastRecentlyUsed(keys, used) ==
    used[CHOOSE i \in 1..Len(used) :
            used[i] \in keys /\ \A j \in 1..(i - 1) : used[j] \notin keys]

\* what a call of a cached fetcher may do to its cache: `before` and `after`
\* are the cache around the call, `used` the keys called with before it
LruCall(before, after, used) ==
    LET key == last_call'.key
        kept == (CacheKeys(before) \cap CacheKeys(after)) \ {key}
    IN
    /\ Len(after) <= 10
    /\ Cardinality(CacheKeys(after)) = Len(after)
    /\ \A k \in kept : CacheValue(after, k) = CacheValue(before, k)
    /\ CacheValue(after, key) = last_call'.result
    /\ IF key \in CacheKeys(before)
       THEN /\ requests' = requests
            /\ last_call'.result = CacheValue(before, key)
            /\ CacheKeys(after) = CacheKeys(before)
       ELSE /\ Len(requests') = Len(requests) + 1
            /\ Last(requests').key = key
            /\ IF Len(before) = 10
               THEN CacheKeys(after) =
                       (CacheKeys(before) \ {LeastRecentlyUsed(CacheKeys(before), used)}) \cup {key}
               ELSE CacheKeys(after) = CacheKeys(before) \cup {key}

\* C8: each cache holds at most 10 entries, one per argument tuple; a call
\* whose key is cached sends no request and returns the stored list, also a
\* stored empty list; a call whose key is not cached sends one request,
\* stores its result and, the cache being full, evicts the least recently
\* used key and no other.
C8_BoundedLru ==
    [][ /\ pc = "issues" => LruCall(issues_cache, issues_cache', last_use.issues)
                             /\ files_cache' = files_cache
        /\ pc = "files" => LruCall(files_cache, files_cache', last_use.files)
                            /\ issues_cache' = issues_cache ]_vars

\* the issue cache has evicted a key, and the last call was served the empty
\* list of a failed fetch from the cache
C8_Witness ==
    /\ Len(last_use.issues) > 10 /\ Len(issues_cache) = 10
    /\ last_call.fn = "issues"
    /\ last_call.hit /\ last_call.result = <<>>
    /\ \E i \in 1..Len(requests) : requests[i].key = last_call.key /\ requests[i].status = 404

(***************************************************************************)
(* Issue Filter.                                                           *)
(***************************************************************************)
keywords == <<"error", "exception", "traceback", ".py", ".cpp", ".js", ".c", ".java">>

is_code_related(body) ==
    IF body \in {None, ""} THEN FALSE
    ELSE \E k \in 1..Len(keywords) : Contains(lower(body), keywords[k])

\* the loop running over every issue fetched
KeepAllIssues(list) == list

\* [issue for issue in issues if is_code_related(issue.get("body", ""))]
FilterIssues(list) == SelectSeq(list, LAMBDA issue : is_code_related(issue.body))

(***************************************************************************)
(* Content Fetcher.  The json of a response is an object (with or without  *)
(* "content" and "message"), a list, or another JSON value.                *)
(***************************************************************************)
DecodeError == "<decode error>"

\* base64.b64decode(content).decode("utf-8") on the payloads of the model
b64decode_utf8(content) ==
    CASE content = "cHJpbnQoMSk=" -> "print(1)"
      [] content = "" -> ""
      [] OTHER -> DecodeError

ContentResponses ==
    { [kind |-> "dict", status |-> 200, content |-> "cHJpbnQoMSk=", message |-> None],
      [kind |-> "dict", status |-> 200, content |-> "", message |-> None],
      [kind |-> "dict", status |-> 200, content |-> "/w==", message |-> None],
      [kind |-> "list", status |-> 200, content |-> None, message |-> None],
      [kind |-> "dict", status |-> 404, content |-> None, message |-> "Not Found"],
      [kind |-> "dict", status |-> 500, content |-> None, message |-> None],
      [kind |-> "other", status |-> 502, content |-> None, message |-> None] }

\* fetch_buggy_code: what it returns, what it shows, and whether it raises
fetch_buggy_code(path, response) ==
    IF response.kind = "dict" /\ response.content # None THEN
        IF b64decode_utf8(response.content) = DecodeError
        THEN [result |-> None, raised |-> FALSE,
              shown |-> <<[kind |-> "error", text |-> "Error decoding file " \o path]>>]
        ELSE [result |-> b64decode_utf8(response.content), raised |-> FALSE, shown |-> <<>>]
    ELSE IF response.kind = "list"
        THEN [result |-> None, raised |-> FALSE,
              shown |-> <<[kind |-> "error", text |-> path \o " appears to be a directory"]>>]
    ELSE IF response.kind = "dict"
        THEN [result |-> None, raised |-> FALSE,
              shown |-> <<[kind |-> "error",
                           text |-> "Failed to fetch " \o path \o ": " \o
                                    (IF response.message # None THEN response.message
                                     ELSE "Unknown error")]>>]
    \* response_data.get on a value that is no dict: AttributeError (line 93)
    ELSE [result |-> None, raised |-> TRUE, shown |-> <<>>]

(***************************************************************************)
(* Spec: one run of the script after a click on the button.                *)
(***************************************************************************)
MaxIssues == 2

\* the requests one fix_code_with_ai can send before Python's recursion
\* limit ends the self-recursion with a RecursionError
RecursionLimit == 3

IssuePool ==
    { [title |-> "Crash in parser", body |-> "parser.py"],
      [title |-> "Stack trace", body |-> "Traceback (most recent call last)"],
      [title |-> "Parser error", body |-> "Error:\nutils/parser.py"],
      [title |-> "Docs", body |-> "utils"],
      [title |-> "No text", body |-> None] }

IssueLists == {q \in ListsOf(IssuePool, MaxIssues) : Distinct(q)}

IssueResponses ==
    {[status |-> 200, json |-> q] : q \in IssueLists}
    \cup {[status |-> 404, json |-> [message |-> "Not Found"]]}

TreeResponses ==
    { [status |-> 200,
       json |-> [tree |-> <<[path |-> "README.md", type |-> "blob"],
                            [path |-> "utils", type |-> "tree"],
                            [path |-> "utils/parser.py", type |-> "blob"]>>]],
      [status |-> 404, json |-> [message |-> "Not Found"]] }

ValidReply == "**Root Cause:** off by one\n\n**Fixed Code:** print(2)\n\n**Explanation:** fixed\n"

NoFixReply == "I could not find a bug in this file."

Replies == {ValidReply, NoFixReply}

Init ==
    /\ pc = "start"
    /\ github_url \in {"", "widgets", ExampleUrl}
    /\ branch \in {"main", "master"}
    /\ issue_body = None /\ repo_files = <<>> /\ completion = None
    /\ NothingYet

\* lines 139-143 and 176-177
Click ==
    /\ pc = "start"
    /\ IF strip(github_url) = ""
       THEN /\ ui' = Append(ui, [kind |-> "warning", text |-> "Please enter a GitHub repository link."])
            /\ pc' = "done"
            /\ UNCHANGED <<owner, repo>>
       ELSE /\ owner' = extract_repo_details(github_url)[1]
            /\ repo' = extract_repo_details(github_url)[2]
            /\ pc' = IF extract_repo_details(github_url)[1] \notin {None, ""}
                        /\ extract_repo_details(github_url)[2] \notin {None, ""}
                     THEN "fetch_issues" ELSE "done"
            /\ UNCHANGED ui
    /\ UNCHANGED <<github_url, branch, issues, repo_files, filtered_issues, idx,
                   issue_body, file_path, buggy_code, completion, ai_response,
                   fix_details, calls, pdf, pdf_file, requests, issues_cache,
                   files_cache, cache_info, last_call, last_use>>

\* lines 144-147: the first call of fetch_github_issues_cached of the run
FetchIssues ==
    /\ pc = "fetch_issues"
    /\ <<owner, repo>> \notin CacheKeys(issues_cache)
    /\ \E response \in IssueResponses :
          /\ requests' = Append(requests, [kind |-> "issues", key |-> <<owner, repo>>,
                                            status |-> response.status])
          /\ issues_cache' = lru_miss(issues_cache, <<owner, repo>>, fetch_github_issues(response))
          /\ last_call' = [fn |-> "issues", key |-> <<owner, repo>>, hit |-> FALSE,
                           result |-> fetch_github_issues(response)]
          /\ issues' = fetch_github_issues(response)
          /\ pc' = IF fetch_github_issues(response) # <<>> THEN "fetch_tree" ELSE "done"
    /\ cache_info' = [cache_info EXCEPT !.issues.misses = @ + 1]
    /\ last_use' = [last_use EXCEPT !.issues = Touch(@, <<owner, repo>>)]
    /\ UNCHANGED <<github_url, branch, owner, repo, repo_files, filtered_issues, idx,
                   issue_body, file_path, buggy_code, completion, ai_response,
                   fix_details, calls, ui, pdf, pdf_file, files_cache>>

\* lines 148-154: the tree, the empty document, the filter
FetchTree ==
    /\ pc = "fetch_tree"
    /\ <<owner, repo, branch>> \notin CacheKeys(files_cache)
    /\ \E response \in TreeResponses :
          /\ requests' = Append(requests, [kind |-> "tree", key |-> <<owner, repo, branch>>,
                                            status |-> response.status])
          /\ files_cache' = lru_miss(files_cache, <<owner, repo, branch>>, fetch_repo_files(response))
          /\ last_call' = [fn |-> "files", key |-> <<owner, repo, branch>>, hit |-> FALSE,
                           result |-> fetch_repo_files(response)]
          /\ repo_files' = fetch_repo_files(response)
    /\ cache_info' = [cache_info EXCEPT !.files.misses = @ + 1]
    /\ last_use' = [last_use EXCEPT !.files = Touch(@, <<owner, repo, branch>>)]
    /\ ui' = Append(ui, [kind |-> "subheader", text |-> "Processing GitHub Issues"])
    /\ pdf' = [pages |-> 1, cells |-> <<>>]
    /\ filtered_issues' = FilterIssues(issues)
    /\ idx' = 1
    /\ pc' = "loop"
    /\ UNCHANGED <<github_url, branch, owner, repo, issues, issue_body, file_path,
                   buggy_code, completion, ai_response, fix_details, calls, pdf_file,
                   issues_cache>>

\* lines 156-162: the next issue of the filtered list is matched
MatchIssue ==
    /\ pc = "loop"
    /\ idx <= Len(filtered_issues)
    /\ LET issue == filtered_issues[idx]
           found == extract_file_path(issue.body, repo_files)
       IN  /\ file_path' = found
           /\ IF found # None
              THEN /\ ui' = ui \o <<[kind |-> "issue", text |-> issue.title],
                                    [kind |-> "body", text |-> issue.body],
                                    [kind |-> "matched", text |-> found]>>
                   /\ pc' = "fetch_code"
                   /\ UNCHANGED idx
              ELSE /\ idx' = idx + 1
                   /\ UNCHANGED <<ui, pc>>
    /\ UNCHANGED <<github_url, branch, owner, repo, issues, repo_files,
                   filtered_issues, issue_body, buggy_code, completion, ai_response,
                   fix_details, calls, pdf, pdf_file, requests, issues_cache,
                   files_cache, cache_info, last_call, last_use>>

\* lines 164-165 with fetch_buggy_code (lines 77-94)
FetchCode ==
    /\ pc = "fetch_code"
    /\ \E response \in ContentResponses :
        LET got == fetch_buggy_code(file_path, response) IN
          /\ requests' = Append(requests, [kind |-> "content", key |-> <<owner, repo, file_path, branch>>,
                                            status |-> response.status,
                                            issue |-> filtered_issues[idx]])
          /\ ui' = ui \o got.shown
          /\ buggy_code' = got.result
          /\ IF got.raised THEN pc' = "aborted" /\ UNCHANGED <<idx, calls>>
             ELSE IF got.result \notin {None, ""} THEN pc' = "ai" /\ calls' = 0 /\ UNCHANGED idx
             ELSE pc' = "loop" /\ idx' = idx + 1 /\ UNCHANGED calls
    /\ UNCHANGED <<github_url, branch, owner, repo, issues, repo_files,
                   filtered_issues, issue_body, file_path, completion, ai_response,
                   fix_details, pdf, pdf_file, issues_cache, files_cache,
                   cache_info, last_call, last_use>>

FixShown(sections) ==
    <<[kind |-> "root_cause", text |-> sections["Root Cause"]],
      [kind |-> "fixed_code", text |-> sections["Fixed Code"]],
      [kind |-> "explanation", text |-> sections["Explanation"]]>>

\* one completion request of fix_code_with_ai (lines 103-137) and, when it
\* returns, lines 167-170
AskForFix ==
    /\ pc = "ai"
    /\ calls' = calls + 1
    /\ requests' = Append(requests, [kind |-> "completion", key |-> buggy_code, status |-> 200,
                                      issue |-> filtered_issues[idx]])
    /\ \/ \* the request raises: caught at line 135
          /\ ui' = Append(ui, [kind |-> "error", text |-> "AI Error"])
          /\ fix_details' = NoneObject
          /\ pc' = "loop" /\ idx' = idx + 1
          /\ UNCHANGED <<completion, ai_response>>
       \/ \E reply \in Replies :
            LET sections == ParseSections(strip(reply)) IN
            /\ completion' = reply
            /\ ai_response' = strip(reply)
            /\ IF sections["Fixed Code"] # ""
               THEN \* the fix is returned and shown
                    /\ fix_details' = sections
                    /\ ui' = ui \o FixShown(sections)
                    /\ pc' = "loop" /\ idx' = idx + 1
               ELSE IF calls + 1 < RecursionLimit
               THEN \* line 131: the function calls itself
                    /\ ui' = Append(ui, [kind |-> "warning", text |-> "AI did not generate a fix."])
                    /\ UNCHANGED <<fix_details, pc, idx>>
               ELSE \* the call of line 131 raises RecursionError: caught at line 135
                    /\ ui' = ui \o <<[kind |-> "warning", text |-> "AI did not generate a fix."],
                                     [kind |-> "error", text |-> "AI Error"]>>
                    /\ fix_details' = NoneObject
                    /\ pc' = "loop" /\ idx' = idx + 1
    /\ UNCHANGED <<github_url, branch, owner, repo, issues, repo_files,
                   filtered_issues, issue_body, file_path, buggy_code, pdf, pdf_file,
                   issues_cache, files_cache, cache_info, last_call, last_use>>

\* lines 172-174: the document is written once the loop has ended
WriteReport ==
    /\ pc = "loop"
    /\ idx > Len(filtered_issues)
    /\ pdf_file' = pdf
    /\ ui' = Append(ui, [kind |-> "download", text |-> "Fix_Report.pdf"])
    /\ pc' = "done"
    /\ UNCHANGED <<github_url, branch, owner, repo, issues, repo_files,
                   filtered_issues, idx, issue_body, file_path, buggy_code,
                   completion, ai_response, fix_details, calls, pdf, requests,
                   issues_cache, files_cache, cache_info, last_call, last_use>>

Next ==
    \/ Click
    \/ FetchIssues
    \/ FetchTree
    \/ MatchIssue
    \/ FetchCode
    \/ AskForFix
    \/ WriteReport

Spec == Init /\ [][Next]_vars

\* C1: one invocation of fix_code_with_ai sends at most two completion
\* requests, the original and one retry, and then returns.
C1_AtMostTwoRequests == calls <= 2

\* C5: every path the Tree Fetcher returns ends with a recognized extension,
\* and a failed tree request gives the empty list.
C5_OnlyRecognizedExtensions ==
    /\ \A i \in 1..Len(repo_files) :
          \E ext \in {".py", ".cpp", ".js", ".c", ".java"} :
              LET path == repo_files[i] IN
              Len(path) >= Len(ext) /\ SubSeq(path, Len(path) - Len(ext) + 1, Len(path)) = ext
    /\ \A i \in 1..Len(requests) :
          (requests[i].kind = "tree" /\ requests[i].status # 200) => repo_files = <<>>

\* the (title, FixResult) pairs the run has produced, in order: each fix
\* shown, under the title of the issue shown before it
RECURSIVE FixesShown(_, _, _)
FixesShown(log, i, title) ==
    IF i > Len(log) THEN <<>>
    ELSE IF log[i].kind = "issue" THEN FixesShown(log, i + 1, log[i].text)
    ELSE IF log[i].kind = "root_cause"
         THEN <<[title |-> title, root_cause |-> log[i].text,
                 fixed_code |-> log[i + 1].text, explanation |-> log[i + 2].text]>>
              \o FixesShown(log, i + 3, title)
    ELSE FixesShown(log, i + 1, title)

\* C6: the document written holds, in processing order, one entry per issue
\* a FixResult was produced for, with the title and the three fields; it is
\* written only when the whole filtered list has been processed.
C6_ReportHoldsEveryFix ==
    pdf_file # NoneObject =>
        /\ pdf_file.cells = FixesShown(ui, 1, None)
        /\ idx > Len(filtered_issues)

\* C7: a failure of content retrieval or of fix generation for one issue
\* gives a null result and shows a message, and the run goes on to the next
\* issue: no step ends the run.
C7_FailuresContained ==
    [][ /\ pc' # "aborted"
        /\ (pc = "fetch_code" /\ buggy_code' = None)
              => (Len(ui') > Len(ui) /\ idx' = idx + 1 /\ pc' = "loop")
        /\ (pc = "ai" /\ pc' # "ai" /\ fix_details' = NoneObject)
              => (Len(ui') > Len(ui) /\ idx' = idx + 1 /\ pc' = "loop") ]_vars

\* the body, case-folded, holds a keyword of the fixed set
HasKeyword(body) ==
    /\ body \notin {None, ""}
    /\ LET folded == lower(body) IN
       \E kw \in {"error", "exception", "traceback", ".py", ".cpp", ".js", ".c", ".java"} :
          \E k \in 1..Len(body) : MatchAt(folded, k, kw)

\* q is p with some elements left out
RECURSIVE IsSubsequence(_, _)
IsSubsequence(q, p) ==
    IF q = <<>> THEN TRUE
    ELSE IF p = <<>> THEN FALSE
    ELSE IF Head(q) = Head(p) THEN IsSubsequence(Tail(q), Tail(p))
    ELSE IsSubsequence(q, Tail(p))

\* C9 as stated: no request is made for an issue whose body holds no
\* keyword, and the filter comes before any tree, content or completion
\* request: such a request is only sent when an issue has passed the filter;
\* filtering adds no issue and is idempotent.
C9_FilterBeforeAnyRequest ==
    /\ \A i \in 1..Len(requests) :
          /\ requests[i].kind \in {"content", "completion"} => HasKeyword(requests[i].issue.body)
          /\ requests[i].kind \in {"tree", "content", "completion"}
                => \E j \in 1..Len(issues) : HasKeyword(issues[j].body)
    /\ IsSubsequence(filtered_issues, issues)
    /\ FilterIssues(filtered_issues) = filtered_issues

\* C9 amended: no content request and no completion request is made for an
\* issue whose body holds no keyword; the issues processed are those of the
\* fetched list whose body holds a keyword, in order, none added, and
\* filtering them again changes nothing; the one tree request of the run is
\* sent before the filter is applied, whatever the filter keeps.
C9_NoCostForDroppedIssues ==
    /\ \A i \in 1..Len(requests) :
          requests[i].kind \in {"content", "completion"} => HasKeyword(requests[i].issue.body)
    /\ pc \in {"loop", "fetch_code", "ai", "aborted"} \/ pdf_file # NoneObject =>
          /\ IsSubsequence(filtered_issues, issues)
          /\ \A i \in 1..Len(filtered_issues) : HasKeyword(filtered_issues[i].body)
          /\ Len(filtered_issues) = Cardinality({i \in 1..Len(issues) : HasKeyword(issues[i].body)})
          /\ FilterIssues(filtered_issues) = filtered_issues
          /\ Cardinality({i \in 1..Len(requests) : requests[i].kind = "tree"}) = 1

\* an issue without keyword that names a directory of the tree was fetched
\* and dropped, and the issue after it was asked a fix for
C9_Witness ==
    /\ pc = "loop"
    /\ Len(issues) = 2 /\ issues[1].body = "utils" /\ issues[2].body = "parser.py"
    /\ extract_file_path(issues[1].body, repo_files) # None
    /\ filtered_issues = <<issues[2]>>
    /\ \E i \in 1..Len(requests) : requests[i].kind = "completion"

====
